---------------------------- MODULE Spec2Model ----------------------------
(***************************************************************************)
(* The pure-Python stubs of hedge_engine.ffi (the accounting kernel's call *)
(* surface): initialize_lean, position_value, sum_position_values,         *)
(* calc_nav and get_position, called by a client on one portfolio          *)
(* snapshot (cash, positions).                                             *)
(*                                                                         *)
(* Python integers are arbitrary-precision: the stubs compute with exact   *)
(* integers and hold no range.  The Money range of the specification       *)
(* (signed 64-bit, +-(2^63 - 1)) is kept as MoneyMax == 2^MoneyBits - 1    *)
(* with MoneyBits scaled down, since TLC's own integers are 32 bits wide;  *)
(* the inputs are chosen around MoneyMax so that products and sums leave   *)
(* the range.                                                              *)
(***************************************************************************)
EXTENDS Integers, Sequences, FiniteSets

(***************************************************************************)
(* Bounds of the model.                                                    *)
(***************************************************************************)
MoneyBits == 5

MaxLen == 3

MaxInits == 2

MoneyMax == 2^MoneyBits - 1

InMoneyRange(n) == -MoneyMax <= n /\ n <= MoneyMax

(***************************************************************************)
(* Inputs.  A position is the dict {"asset_id", "quantity", "mark_price"}  *)
(* of the stubs and the tests.  Duplicate asset ids in one list are        *)
(* allowed: the stubs do not validate.                                     *)
(***************************************************************************)
PortfolioIds == {"SPY", "AAPL"}

QueryIds == PortfolioIds \cup {"spy", "SPY ", "TSLA"}

Quantities == {-2, 1}

MarkPrices == {1, MoneyMax}

QuantityArgs == Quantities \cup {0, MoneyMax}

MarkPriceArgs == MarkPrices \cup {-1}

CashValues == {-1, MoneyMax}

Positions == [asset_id : PortfolioIds, quantity : Quantities, mark_price : MarkPrices]

RECURSIVE SeqsUpTo(_, _)
SeqsUpTo(S, n) ==
    IF n = 0 THEN {<< >>}
    ELSE LET shorter == SeqsUpTo(S, n - 1)
         IN  shorter \cup {Append(s, x) : s \in {t \in shorter : Len(t) = n - 1}, x \in S}

Snapshots == SeqsUpTo(Positions, MaxLen)

(***************************************************************************)
(* Python values and call outcomes.  A value is an int, None or a          *)
(* position dict; an outcome is a returned value or a raised exception.    *)
(***************************************************************************)
NoPosition == [asset_id |-> "", quantity |-> 0, mark_price |-> 0]

PyInt(n) == [type |-> "int", int |-> n, pos |-> NoPosition]

PyNone == [type |-> "NoneType", int |-> 0, pos |-> NoPosition]

PyDict(p) == [type |-> "dict", int |-> 0, pos |-> p]

Return(v) == [exc |-> "", ret |-> v]

Raise(e) == [exc |-> e, ret |-> PyNone]

NoArgs == [quantity |-> 0, mark_price |-> 0, asset_id |-> ""]

VARIABLES
    cash,       \* the caller's cash, an int
    positions,  \* the caller's list of position dicts
    op,         \* the function called last ("" before the first call)
    args,       \* its scalar arguments
    result,     \* its outcome
    inits       \* number of initialize_lean() calls so far

vars == <<cash, positions, op, args, result, inits>>

(***************************************************************************)
(* The stubs.                                                              *)
(***************************************************************************)
\* def initialize_lean() -> None: a docstring only, so it returns None.
initialize_lean_not_reentrant ==
    IF inits > 0 THEN Raise("RuntimeError") ELSE Return(PyNone)

initialize_lean == Return(PyNone)

\* return quantity * mark_price
position_value_abs_price(quantity, mark_price) ==
    Return(PyInt(quantity * (IF mark_price < 0 THEN -mark_price ELSE mark_price)))

Wrap(n) == ((n + MoneyMax + 1) % (2 * (MoneyMax + 1))) - (MoneyMax + 1)

position_value_wrapping(quantity, mark_price) ==
    Return(PyInt(Wrap(quantity * mark_price)))

position_value(quantity, mark_price) ==
    Return(PyInt(quantity * mark_price))

\* sum(<generator>): the builtin adds the items left to right, starting at 0.
RECURSIVE sum_loop(_, _, _)
sum_loop(positions_, i, acc) ==
    IF i > Len(positions_) THEN acc
    ELSE sum_loop(positions_, i + 1,
                  acc + positions_[i].quantity * positions_[i].mark_price)

RECURSIVE sum_loop_dedup(_, _, _)
sum_loop_dedup(positions_, i, acc) ==
    IF i > Len(positions_) THEN acc
    ELSE IF \E j \in 1..(i - 1) : positions_[j].asset_id = positions_[i].asset_id
         THEN sum_loop_dedup(positions_, i + 1, acc)
         ELSE sum_loop_dedup(positions_, i + 1,
                  acc + positions_[i].quantity * positions_[i].mark_price)

sum_position_values_dedup(positions_) ==
    Return(PyInt(sum_loop_dedup(positions_, 1, 0)))

RECURSIVE sum_loop_checked(_, _, _)
sum_loop_checked(positions_, i, acc) ==
    IF ~InMoneyRange(acc) THEN Raise("OverflowError")
    ELSE IF i > Len(positions_) THEN Return(PyInt(acc))
         ELSE sum_loop_checked(positions_, i + 1,
                  acc + positions_[i].quantity * positions_[i].mark_price)

sum_position_values_checked(positions_) ==
    sum_loop_checked(positions_, 1, 0)

sum_position_values_skip_first(positions_) ==
    Return(PyInt(sum_loop(positions_, 2, 0)))

sum_position_values(positions_) ==
    Return(PyInt(sum_loop(positions_, 1, 0)))

\* int(x) of an int x is x.
int(x) == x

calc_nav_minus(cash_, positions_) ==
    LET s == sum_position_values(positions_)
    IN  IF s.exc # "" THEN s ELSE Return(PyInt(int(cash_ - s.ret.int)))

calc_nav(cash_, positions_) ==
    LET s == sum_position_values(positions_)
    IN  IF s.exc # "" THEN s ELSE Return(PyInt(int(cash_ + s.ret.int)))

\* for p in positions: if p["asset_id"] == asset_id: return p;  return None
RECURSIVE get_position_loop(_, _, _)
get_position_loop(positions_, asset_id, i) ==
    IF i > Len(positions_) THEN Return(PyNone)
    ELSE IF positions_[i].asset_id = asset_id THEN Return(PyDict(positions_[i]))
         ELSE get_position_loop(positions_, asset_id, i + 1)

RECURSIVE get_position_loop_reversed(_, _, _)
get_position_loop_reversed(positions_, asset_id, i) ==
    IF i < 1 THEN Return(PyNone)
    ELSE IF positions_[i].asset_id = asset_id THEN Return(PyDict(positions_[i]))
         ELSE get_position_loop_reversed(positions_, asset_id, i - 1)

get_position_last(positions_, asset_id) ==
    get_position_loop_reversed(positions_, asset_id, Len(positions_))

\* str.lower() and str.strip() on the ids of the model
Lower(s) == IF s = "SPY" THEN "spy" ELSE IF s = "SPY " THEN "spy " ELSE s

Strip(s) == IF s = "SPY " THEN "SPY" ELSE s

RECURSIVE get_position_loop_normalized(_, _, _)
get_position_loop_normalized(positions_, asset_id, i) ==
    IF i > Len(positions_) THEN Return(PyNone)
    ELSE IF Lower(Strip(positions_[i].asset_id)) = Lower(Strip(asset_id))
         THEN Return(PyDict(positions_[i]))
         ELSE get_position_loop_normalized(positions_, asset_id, i + 1)

get_position_normalized(positions_, asset_id) ==
    get_position_loop_normalized(positions_, asset_id, 1)

get_position(positions_, asset_id) ==
    get_position_loop(positions_, asset_id, 1)

(***************************************************************************)
(* The client: one snapshot, then any calls in any order.                  *)
(***************************************************************************)
InitWith(snapshots) ==
    /\ cash \in CashValues
    /\ positions \in snapshots
    /\ op = ""
    /\ args = NoArgs
    /\ result = Return(PyNone)
    /\ inits = 0

Init == InitWith(Snapshots)

CallInitializeLean ==
    /\ inits < MaxInits
    /\ op' = "initialize_lean"
    /\ args' = NoArgs
    /\ result' = initialize_lean
    /\ inits' = inits + 1
    /\ UNCHANGED <<cash, positions>>

CallPositionValue ==
    \E q \in QuantityArgs, m \in MarkPriceArgs :
        /\ op' = "position_value"
        /\ args' = [NoArgs EXCEPT !.quantity = q, !.mark_price = m]
        /\ result' = position_value(q, m)
        /\ UNCHANGED <<cash, positions, inits>>

CallSumPositionValuesClear ==
    /\ op' = "sum_position_values"
    /\ args' = NoArgs
    /\ result' = sum_position_values(positions)
    /\ positions' = << >>
    /\ UNCHANGED <<cash, inits>>

CallSumPositionValues ==
    /\ op' = "sum_position_values"
    /\ args' = NoArgs
    /\ result' = sum_position_values(positions)
    /\ UNCHANGED <<cash, positions, inits>>

CallCalcNav ==
    /\ op' = "calc_nav"
    /\ args' = NoArgs
    /\ result' = calc_nav(cash, positions)
    /\ UNCHANGED <<cash, positions, inits>>

CallGetPosition ==
    \E id \in QueryIds :
        /\ op' = "get_position"
        /\ args' = [NoArgs EXCEPT !.asset_id = id]
        /\ result' = get_position(positions, id)
        /\ UNCHANGED <<cash, positions, inits>>

Next ==
    \/ CallPositionValue
    \/ CallSumPositionValues
    \/ CallCalcNav
    \/ CallGetPosition

Spec == Init /\ [][Next]_vars

(***************************************************************************)
(* The same client, also calling initialize_lean() at any point (at most   *)
(* MaxInits times), on the snapshots of fewer than MaxLen positions.       *)
(***************************************************************************)
LifecycleSnapshots == {s \in Snapshots : Len(s) < MaxLen}

InitLifecycle == InitWith(LifecycleSnapshots)

NextLifecycle ==
    \/ CallInitializeLean
    \/ Next

SpecLifecycle == InitLifecycle /\ [][NextLifecycle]_vars


(***************************************************************************)
(* Reference values, computed independently of the stubs.                  *)
(***************************************************************************)
\* q * m by repeated addition.
RECURSIVE ExactProduct(_, _)
ExactProduct(q, m) ==
    IF q = 0 THEN 0
    ELSE IF q > 0 THEN m + ExactProduct(q - 1, m)
         ELSE ExactProduct(q + 1, m) - m

\* The sum of quantity * mark_price over the indices S of P, in no order.
RECURSIVE ExactSumOver(_, _)
ExactSumOver(P, S) ==
    IF S = {} THEN 0
    ELSE LET i == CHOOSE j \in S : TRUE
         IN  ExactProduct(P[i].quantity, P[i].mark_price) + ExactSumOver(P, S \ {i})

ExactSum(P) == ExactSumOver(P, DOMAIN P)

\* The sum of position_value(p.quantity, p.mark_price) over the indices S of P.
RECURSIVE PositionValueSumOver(_, _)
PositionValueSumOver(P, S) ==
    IF S = {} THEN 0
    ELSE LET i == CHOOSE j \in S : TRUE
         IN  position_value(P[i].quantity, P[i].mark_price).ret.int
                 + PositionValueSumOver(P, S \ {i})

Relabelled(P, id) == [i \in DOMAIN P |-> [P[i] EXCEPT !.asset_id = id]]

Permutations(n) == {f \in [1..n -> 1..n] : \A i, j \in 1..n : f[i] = f[j] => i = j}

Permuted(P, f) == [i \in DOMAIN P |-> P[f[i]]]

Matches == {i \in DOMAIN positions : positions[i].asset_id = args.asset_id}

FirstMatch == CHOOSE i \in Matches : \A j \in Matches : i <= j

ValuationOps == {"position_value", "sum_position_values", "calc_nav"}

\* The true mathematical result of the valuation call of the current state.
TrueResult ==
    IF op = "position_value" THEN ExactProduct(args.quantity, args.mark_price)
    ELSE IF op = "sum_position_values" THEN ExactSum(positions)
         ELSE cash + ExactSum(positions)

\* Some running sum of the position values leaves the Money range, while every
\* single position value and the sum of the whole list lie inside it.
PartialSumLeavesRange ==
    /\ \A i \in DOMAIN positions :
           InMoneyRange(ExactProduct(positions[i].quantity, positions[i].mark_price))
    /\ \E k \in DOMAIN positions : ~InMoneyRange(ExactSumOver(positions, 1..k))
    /\ InMoneyRange(ExactSum(positions))

(***************************************************************************)
(* C1.  calc_nav(cash, P) returns exactly cash + sum_position_values(P),   *)
(* for every cash and every list P; calc_nav(cash, []) is cash.            *)
(***************************************************************************)
C1_CalcNavIsCashPlusSum ==
    op = "calc_nav" =>
        /\ result.exc = ""
        /\ result.ret = PyInt(cash + sum_position_values(positions).ret.int)
        /\ (positions = << >> => result.ret.int = cash)

C1_Witness ==
    /\ op = "calc_nav"
    /\ Len(positions) = 2
    /\ cash = -1
    /\ sum_position_values(positions).ret.int > 0
    /\ result.ret.int = sum_position_values(positions).ret.int - 1

(***************************************************************************)
(* C2.  position_value(q, m) returns exactly the integer product q * m     *)
(* for every q and m: the sign propagates for a short position and for a   *)
(* negative price, which is not rejected, and position_value(0, m) is 0.   *)
(***************************************************************************)
C2_PositionValueIsProduct ==
    op = "position_value" =>
        /\ result.exc = ""
        /\ result.ret = PyInt(ExactProduct(args.quantity, args.mark_price))
        /\ (args.quantity = 0 => result.ret.int = 0)
        /\ (args.quantity < 0 /\ args.mark_price > 0 => result.ret.int < 0)
        /\ (args.quantity > 0 /\ args.mark_price < 0 => result.ret.int < 0)
        /\ (args.quantity < 0 /\ args.mark_price < 0 => result.ret.int > 0)

C2_Witness ==
    /\ op = "position_value"
    /\ args.quantity = -2
    /\ args.mark_price = -1
    /\ result = Return(PyInt(2))

(***************************************************************************)
(* C3.  sum_position_values(P) is the sum of position_value over every     *)
(* element of P, each counted once also when asset ids repeat, and does    *)
(* not depend on the asset ids; sum_position_values([]) is 0.              *)
(***************************************************************************)
C3_SumCountsEveryPosition ==
    op = "sum_position_values" =>
        /\ result.exc = ""
        /\ result.ret = PyInt(PositionValueSumOver(positions, DOMAIN positions))
        /\ \A id \in PortfolioIds :
               sum_position_values(Relabelled(positions, id)) = result
        /\ (positions = << >> => result.ret.int = 0)

C3_Witness ==
    /\ op = "sum_position_values"
    /\ Len(positions) = 3
    /\ \A i \in DOMAIN positions : positions[i].asset_id = "SPY"
    /\ positions[1] = positions[2]
    /\ result.ret.int = 3 * positions[1].quantity * positions[1].mark_price
    /\ result.ret.int # 0

C5_OrderIndependent ==
    /\ op = "sum_position_values" =>
           \A f \in Permutations(Len(positions)) :
               sum_position_values(Permuted(positions, f)) = result
    /\ op = "calc_nav" =>
           \A f \in Permutations(Len(positions)) :
               calc_nav(cash, Permuted(positions, f)) = result

C5_Witness ==
    /\ op = "calc_nav"
    /\ Len(positions) = 3
    /\ \A i, j \in DOMAIN positions :
           i # j => positions[i].quantity * positions[i].mark_price
                        # positions[j].quantity * positions[j].mark_price
    /\ result.exc = ""

(***************************************************************************)
(* C6.  When some element of P has asset_id exactly equal to the query,    *)
(* get_position(P, id) returns the match of lowest index, with its fields  *)
(* unchanged; a single match is returned itself.                           *)
(***************************************************************************)
C6_GetPositionReturnsFirstMatch ==
    op = "get_position" /\ Matches # {} =>
        /\ result = Return(PyDict(positions[FirstMatch]))
        /\ result.ret.pos.asset_id = args.asset_id

C6_Witness ==
    /\ op = "get_position"
    /\ Matches = {2, 3}
    /\ positions[2] # positions[3]
    /\ result.ret.type = "dict"
    /\ result.ret.pos = positions[2]

(***************************************************************************)
(* C7.  When the query equals no element's asset_id (also for the empty    *)
(* list), get_position returns None and signals no error; and it returns   *)
(* None only when no element matches.                                      *)
(***************************************************************************)
C7_GetPositionAbsentIffNoMatch ==
    op = "get_position" =>
        /\ result.exc = ""
        /\ (Matches = {} <=> result.ret = PyNone)

C7_Witness ==
    /\ op = "get_position"
    /\ args.asset_id \in {"spy", "SPY "}
    /\ \E i \in DOMAIN positions : positions[i].asset_id = "SPY"
    /\ result = Return(PyNone)

(***************************************************************************)
(* C8.  initialize_lean never fails and has no effect the caller can see:  *)
(* however often it has been called, it returns None, it leaves cash and   *)
(* positions alone, and every other call returns what it returns on its    *)
(* arguments with no initialize_lean call made.                            *)
(***************************************************************************)
ResultOfCall ==
    IF op = "position_value" THEN position_value(args.quantity, args.mark_price)
    ELSE IF op = "sum_position_values" THEN sum_position_values(positions)
    ELSE IF op = "calc_nav" THEN calc_nav(cash, positions)
    ELSE IF op = "get_position" THEN get_position(positions, args.asset_id)
    ELSE Return(PyNone)

C8_InitializeLeanHasNoEffect ==
    /\ [](result = ResultOfCall)
    /\ [][op' = "initialize_lean" => cash' = cash /\ positions' = positions]_vars

C8_Witness ==
    /\ inits = 2
    /\ op = "calc_nav"
    /\ Len(positions) = 2
    /\ result.ret.int # cash

C10_CallsDoNotMutatePositions ==
    [][op' \in {"get_position", "sum_position_values", "calc_nav"} =>
           /\ Len(positions') = Len(positions)
           /\ \A i \in DOMAIN positions : positions'[i] = positions[i]]_vars

C10_Witness ==
    /\ op = "sum_position_values"
    /\ Len(positions) = 3
    /\ result.ret.type = "int"
    /\ result.ret.int # 0

=============================================================================
